---- MODULE Spec2Model ----
(***************************************************************************)
(* Model of the spellchecker (src/spellchecker/src/main.rs): the frequency *)
(* trie (Trie::insert, Trie::search), the bounded-edit search              *)
(* (check_spelling, search_with_k_edit) and the rendering of the result    *)
(* lines (write_correct_words).                                            *)
(*                                                                         *)
(* A String / Vec<char> is a sequence of one-character strings.  A HashMap *)
(* is a function (children) together with the order in which the map is    *)
(* iterated (iter): Rust leaves that order unspecified, so every insertion *)
(* of a new key picks it nondeterministically; it is stable while the map  *)
(* is not modified.                                                        *)
(***************************************************************************)
EXTENDS Integers, Sequences, FiniteSets, Bags, TLC

VARIABLES trie, corpus, call, out, seen, run

vars == <<trie, corpus, call, out, seen, run>>

\* ---------------------------------------------------------------- bounds
Alphabet == {"a", "b", "c"}
\* longest corpus word and longest query
MaxLen == 3
\* distinct words a corpus holds, and occurrences of one word
MaxDistinct == 2
MaxCount == 2
\* query words handed to one write_correct_words call
MaxQueries == 2
\* frames the call stack of one search holds before it overflows
MaxStack == 10

\* check.edit starts at the edit budget
MAX_EDIT == 2

SeqsUpTo(S, n) == UNION {[1..m -> S] : m \in 0..n}
Words == SeqsUpTo(Alphabet, MaxLen)

RECURSIVE PermsOf(_)
PermsOf(S) ==
  IF S = {} THEN {<<>>}
  ELSE UNION {{<<x>> \o p : p \in PermsOf(S \ {x})} : x \in S}

Orders == PermsOf(Alphabet)

\* ------------------------------------------------------------------ Trie
TrieNew == [count |-> 0, children |-> <<>>, iter |-> <<>>]

\* iteration order of a map after a new key went in: ord restricted to keys
Rehash(keys, ord) == SelectSeq(ord, LAMBDA x : x \in keys)

\* insert with the count set rather than incremented
RECURSIVE insert_sets_count(_, _, _)
insert_sets_count(self, path, ord) ==
  IF path = <<>>
  THEN [self EXCEPT !.count = 1]
  ELSE LET c     == Head(path)
           had   == c \in DOMAIN self.children
           child == IF had THEN self.children[c] ELSE TrieNew
           sub   == insert_sets_count(child, Tail(path), ord)
           keys  == DOMAIN self.children \cup {c}
       IN [count    |-> self.count,
           children |-> [x \in keys |-> IF x = c THEN sub ELSE self.children[x]],
           iter     |-> IF had THEN self.iter ELSE Rehash(keys, ord)]

RECURSIVE insert(_, _, _)
insert(self, path, ord) ==
  IF path = <<>>
  THEN [self EXCEPT !.count = @ + 1]
  ELSE LET c     == Head(path)
           had   == c \in DOMAIN self.children
           child == IF had THEN self.children[c] ELSE TrieNew
           sub   == insert(child, Tail(path), ord)
           keys  == DOMAIN self.children \cup {c}
       IN [count    |-> self.count,
           children |-> [x \in keys |-> IF x = c THEN sub ELSE self.children[x]],
           iter     |-> IF had THEN self.iter ELSE Rehash(keys, ord)]

\* search that takes every node it reaches for a word
RECURSIVE search_any_node(_, _)
search_any_node(self, path) ==
  IF path = <<>>
  THEN TRUE
  ELSE IF Head(path) \in DOMAIN self.children
       THEN search_any_node(self.children[Head(path)], Tail(path))
       ELSE FALSE

RECURSIVE search(_, _)
search(self, path) ==
  IF path = <<>>
  THEN self.count # 0
  ELSE IF Head(path) \in DOMAIN self.children
       THEN search(self.children[Head(path)], Tail(path))
       ELSE FALSE

\* ------------------------------------------------------- check_spelling
None == [some |-> FALSE, val |-> <<>>]
Some(w) == [some |-> TRUE, val |-> w]

\* the accumulator started one above the budget
CheckResultAboveBudget == [word |-> None, count |-> 0, edit |-> MAX_EDIT + 1]

CheckResult == [word |-> None, count |-> 0, edit |-> MAX_EDIT]

Push(st, ch) == [st EXCEPT !.path = Append(@, ch)]
PopForgotten(st) == st
Pop(st) == [st EXCEPT !.path = SubSeq(@, 1, Len(@) - 1)]

\* statements run in program order: e is evaluated with st, the state the
\* calls made so far have left, already computed
InOrder(st, e) == IF st = st THEN e ELSE st

RECURSIVE search_with_k_edit(_, _, _, _)
RECURSIVE InsertAtEnd(_, _, _, _, _)
RECURSIVE InsertOrReplace(_, _, _, _, _)

\* acceptance by frequency alone, within the best edit count so far
AcceptsMoreFrequent(node, k, check) == node.count > check.count /\ k <= check.edit

\* acceptance of a candidate that only ties the best on edits and frequency
AcceptsTies(node, k, check) ==
  \/ (k < check.edit /\ node.count > 0)
  \/ (node.count >= check.count /\ node.count > 0 /\ k = check.edit)

\* the test that makes the node reached the new best
Accepts(node, k, check) ==
  \/ (k < check.edit /\ node.count > 0)
  \/ (node.count > check.count /\ k = check.edit)

\* "This word exists in corpus and is with higher frequency"
Record(node, k, st) ==
  [st EXCEPT !.check = [word |-> Some(st.path), count |-> node.count, edit |-> k]]

\* a matched letter charged as an edit
MatchCharged(node, to_go, k, st) ==
  IF Head(to_go) \in DOMAIN node.children
  THEN Pop(search_with_k_edit(node.children[Head(to_go)], Tail(to_go), k + 1,
                              Push(st, Head(to_go))))
  ELSE st

\* "Get match, no need to edit"
Match(node, to_go, k, st) ==
  IF Head(to_go) \in DOMAIN node.children
  THEN Pop(search_with_k_edit(node.children[Head(to_go)], Tail(to_go), k,
                              Push(st, Head(to_go))))
  ELSE st

\* "Already found match word with fewer edits"
Pruned(k, check) == k >= check.edit

\* "Delete a letter"
Delete(node, to_go, k, st) == search_with_k_edit(node, Tail(to_go), k + 1, st)

\* no transposition step
TransposeSkipped(node, to_go, k, st) == st

\* "Transpos adjacent letters"
Transpose(node, to_go, k, st) ==
  IF Len(to_go) > 1 /\ to_go[2] \in DOMAIN node.children
  THEN LET sub == node.children[to_go[2]]
           go  == <<to_go[1]>> \o SubSeq(to_go, 3, Len(to_go))
       IN Pop(search_with_k_edit(sub, go, k + 1, Push(st, to_go[2])))
  ELSE st

\* st = [path, check]: the two &mut arguments, returned as the call leaves them
search_with_k_edit(node, to_go, k, st) ==
  InOrder(st,
    IF to_go = <<>>
    THEN IF Accepts(node, k, st.check)
         THEN Record(node, k, st)
         ELSE InsertAtEnd(node, node.iter, to_go, k, st)
    ELSE LET matched == Match(node, to_go, k, st)
         IN IF Pruned(k, matched.check)
            THEN matched
            ELSE LET deleted    == Delete(node, to_go, k, matched)
                     transposed == Transpose(node, to_go, k, deleted)
                 IN InsertOrReplace(node, node.iter, to_go, k, transposed))

\* for (ch, sub) in &node.children, the suffix exhausted: "Insert a letter at
\* the end"; keys is what the iteration has still to visit
InsertAtEnd(node, keys, to_go, k, st) ==
  InOrder(st,
    IF keys = <<>>
    THEN st
    ELSE LET ch == Head(keys)
             s1 == Pop(search_with_k_edit(node.children[ch], to_go, k + 1, Push(st, ch)))
         IN InsertAtEnd(node, Tail(keys), to_go, k, s1))

\* for (ch, sub) in &node.children: "Insert a letter", then "Replace a letter"
InsertOrReplace(node, keys, to_go, k, st) ==
  InOrder(st,
    IF keys = <<>>
    THEN st
    ELSE LET ch == Head(keys)
             s1 == Pop(search_with_k_edit(node.children[ch], to_go, k + 1, Push(st, ch)))
             s2 == Pop(search_with_k_edit(node.children[ch], Tail(to_go), k + 1, Push(s1, ch)))
         IN InsertOrReplace(node, Tail(keys), to_go, k, s2))

\* the CheckResult as search_with_k_edit leaves it
Searched(t, word) ==
  search_with_k_edit(t, word, 0, [path |-> <<>>, check |-> CheckResult]).check

check_spelling(t, word) == Searched(t, word).word

\* ------------------------------- search_with_k_edit, call by call
\* The same function as a machine: run.stack holds one frame per invocation
\* that has not returned (the innermost last), run.path and run.check are
\* the two &mut arguments.  A frame is the node (by its place in the trie),
\* the suffix to_go, the edit count k, where the invocation stands (pc) and
\* what its for loop has still to visit (keys).
RECURSIVE NodeAt(_, _)
NodeAt(t, at) == IF at = <<>> THEN t ELSE NodeAt(t.children[Head(at)], Tail(at))

Frame(at, to_go, k) ==
  [at |-> at, to_go |-> to_go, k |-> k, pc |-> "enter", keys |-> <<>>]

NoRun == [stack |-> <<>>, path |-> <<>>, check |-> CheckResult,
          visits |-> <<>>, status |-> "idle"]

Top(c) == c.stack[Len(c.stack)]
SetTop(c, f) == [c EXCEPT !.stack = [@ EXCEPT ![Len(@)] = f]]

\* the invocation on top returns to its caller
Ret(c) == [c EXCEPT !.stack = SubSeq(@, 1, Len(@) - 1)]

\* the invocation on top, left as f, calls search_with_k_edit on callee
Call(c, f, callee) ==
  IF Len(c.stack) >= MaxStack
  THEN [c EXCEPT !.status = "overflow"]
  ELSE [c EXCEPT !.stack = Append([@ EXCEPT ![Len(@)] = f], callee)]

\* the arguments of the six recursive calls
MatchCall(f) == Frame(Append(f.at, Head(f.to_go)), Tail(f.to_go), f.k)
DeleteCall(f) == Frame(f.at, Tail(f.to_go), f.k + 1)
TransposeCall(f) ==
  Frame(Append(f.at, f.to_go[2]),
        <<f.to_go[1]>> \o SubSeq(f.to_go, 3, Len(f.to_go)), f.k + 1)
InsertCall(f, ch) == Frame(Append(f.at, ch), f.to_go, f.k + 1)
ReplaceCall(f, ch) == Frame(Append(f.at, ch), Tail(f.to_go), f.k + 1)
EndCallSameNode(f, ch) == Frame(f.at, f.to_go, f.k + 1)
EndCall(f, ch) == Frame(Append(f.at, ch), f.to_go, f.k + 1)

\* a word's node reached with the suffix exhausted: a candidate, noted in the
\* order the search comes to them
Visit(c, node, k) ==
  IF node.count > 0
  THEN [c EXCEPT !.visits = Append(@, [word |-> c.path, k |-> k, count |-> node.count])]
  ELSE c

\* the invocation on top runs to its next call or to its return
Step(t, c) ==
  LET f    == Top(c)
      node == NodeAt(t, f.at)
  IN CASE f.pc = "enter" ->
            IF f.to_go = <<>>
            THEN IF Accepts(node, f.k, c.check)
                 THEN Ret(Record(node, f.k, Visit(c, node, f.k)))
                 ELSE SetTop(Visit(c, node, f.k),
                             [f EXCEPT !.pc = "end_loop", !.keys = node.iter])
            ELSE IF Head(f.to_go) \in DOMAIN node.children
                 THEN Call(Push(c, Head(f.to_go)), [f EXCEPT !.pc = "match_ret"],
                           MatchCall(f))
                 ELSE SetTop(c, [f EXCEPT !.pc = "prune"])
       [] f.pc = "match_ret" -> SetTop(Pop(c), [f EXCEPT !.pc = "prune"])
       [] f.pc = "prune" ->
            IF Pruned(f.k, c.check)
            THEN Ret(c)
            ELSE Call(c, [f EXCEPT !.pc = "delete_ret"], DeleteCall(f))
       [] f.pc = "delete_ret" ->
            IF Len(f.to_go) > 1 /\ f.to_go[2] \in DOMAIN node.children
            THEN Call(Push(c, f.to_go[2]), [f EXCEPT !.pc = "transpose_ret"],
                      TransposeCall(f))
            ELSE SetTop(c, [f EXCEPT !.pc = "loop", !.keys = node.iter])
       [] f.pc = "transpose_ret" ->
            SetTop(Pop(c), [f EXCEPT !.pc = "loop", !.keys = node.iter])
       [] f.pc = "loop" ->
            IF f.keys = <<>>
            THEN Ret(c)
            ELSE Call(Push(c, Head(f.keys)), [f EXCEPT !.pc = "insert_ret"],
                      InsertCall(f, Head(f.keys)))
       [] f.pc = "insert_ret" ->
            Call(Push(Pop(c), Head(f.keys)), [f EXCEPT !.pc = "replace_ret"],
                 ReplaceCall(f, Head(f.keys)))
       [] f.pc = "replace_ret" ->
            SetTop(Pop(c), [f EXCEPT !.pc = "loop", !.keys = Tail(f.keys)])
       [] f.pc = "end_loop" ->
            IF f.keys = <<>>
            THEN Ret(c)
            ELSE Call(Push(c, Head(f.keys)), [f EXCEPT !.pc = "end_ret"],
                      EndCall(f, Head(f.keys)))
       [] f.pc = "end_ret" ->
            SetTop(Pop(c), [f EXCEPT !.pc = "end_loop", !.keys = Tail(f.keys)])

\* on to the next invocation of search_with_k_edit, or to the last return
\* (n names the value of Step(t, c), computed once)
RECURSIVE RunToCall(_, _)
RunToCall(t, c) ==
  IF c.stack = <<>> \/ c.status = "overflow" \/ Top(c).pc = "enter"
  THEN c
  ELSE CHOOSE r \in {RunToCall(t, n) : n \in {Step(t, c)}} : TRUE

\* the corpus of check_spelling_tests::correct_base_on_frequency, built with the
\* children of every node iterated in the order ord
RECURSIVE InsertAll(_, _, _)
InsertAll(t, ws, ord) ==
  IF ws = <<>> THEN t ELSE InsertAll(insert(t, Head(ws), ord), Tail(ws), ord)

Ape == <<"a", "p", "e">>
Aple == <<"a", "p", "l", "e">>
FruitCorpus ==
  << <<"a", "n">>, <<"a", "p", "p", "l", "e">>, Ape,
     <<"b", "a", "n", "a", "n", "a">>, <<"b", "a", "n", "n", "y">> >>

\* only a, b, e, n and p share a parent with another letter
FruitOrders ==
  {ord \o <<"l", "y">> : ord \in PermsOf({"a", "b", "e", "n", "p"})}

\* -------------------------------------------------- write_correct_words
Dash == <<"-">>
Newline == <<"\n">>

unwrap_or(opt, default) == IF opt.some THEN opt.val ELSE default

\* the first loop: one (word, check_spelling(word)) pair per query word
CheckPairs(words, t) ==
  [i \in 1..Len(words) |-> <<words[i], check_spelling(t, words[i])>>]

\* the line of one pair, before its newline
LineOf(pair) ==
  LET correction == unwrap_or(pair[2], Dash)
      word       == pair[1]
  IN IF correction = word THEN word ELSE word \o <<",", " ">> \o correction

RECURSIVE WritePairs(_, _)
WritePairs(pairs, writer) ==
  IF pairs = <<>>
  THEN writer
  ELSE WritePairs(Tail(pairs), writer \o LineOf(Head(pairs)) \o Newline)

write_correct_words(words, t, writer) == WritePairs(CheckPairs(words, t), writer)

\* ---------------------------------------------------------------- state
\* the last call and what it returned; corpus is the bag of the words inserted
NoCall == [op |-> "none", word |-> <<>>, words |-> <<>>, found |-> FALSE,
           check |-> CheckResult]

Init ==
  /\ trie = TrieNew
  /\ corpus = EmptyBag
  /\ call = NoCall
  /\ out = <<>>
  /\ seen = NoCall
  /\ run = NoRun

InsertTrie(w, ord) ==
  /\ call = NoCall
  /\ IF BagIn(w, corpus)
     THEN CopiesIn(w, corpus) < MaxCount
     ELSE Cardinality(BagToSet(corpus)) < MaxDistinct
  /\ trie' = insert(trie, w, ord)
  /\ corpus' = corpus (+) SetToBag({w})
  /\ seen' = NoCall
  /\ UNCHANGED <<call, out, run>>

SearchTrie(w) ==
  /\ call = NoCall
  /\ call' = [NoCall EXCEPT !.op = "search", !.word = w, !.found = search(trie, w)]
  /\ UNCHANGED <<trie, corpus, out, seen, run>>

\* a check that counts the word it returns as one more occurrence
CheckSpellingLearns(w) ==
  /\ call = NoCall
  /\ call' = [NoCall EXCEPT !.op = "check", !.word = w, !.check = Searched(trie, w)]
  /\ trie' = IF check_spelling(trie, w).some
             THEN insert(trie, check_spelling(trie, w).val, <<>>)
             ELSE trie
  /\ UNCHANGED <<corpus, out, seen, run>>

CheckSpelling(w) ==
  /\ call = NoCall
  /\ call' = [NoCall EXCEPT !.op = "check", !.word = w, !.check = Searched(trie, w)]
  /\ UNCHANGED <<trie, corpus, out, seen, run>>

WriteCorrectWords(ws) ==
  /\ call = NoCall
  /\ call' = [NoCall EXCEPT !.op = "write", !.words = ws]
  /\ out' = write_correct_words(ws, trie, <<>>)
  /\ UNCHANGED <<trie, corpus, seen, run>>

\* the caller has consumed what the last call returned or wrote
Return ==
  /\ call # NoCall
  /\ call.op # "searching"
  /\ call' = NoCall
  /\ out' = <<>>
  /\ run' = NoRun
  /\ UNCHANGED <<trie, corpus, seen>>

\* as Return, the caller keeping the result of a check_spelling call
Remember ==
  /\ call.op = "check"
  /\ seen' = call
  /\ call' = NoCall
  /\ UNCHANGED <<trie, corpus, out, run>>

\* the dictionary and the corrector, over letters
Next ==
  \/ \E w \in Words, ord \in Orders : InsertTrie(w, ord)
  \/ \E w \in Words : SearchTrie(w)
  \/ \E w \in Words : CheckSpelling(w)
  \/ Return

Spec == Init /\ [][Next]_vars

\* the rendering, over an alphabet that holds the dash
WAlphabet == {"a", "-"}
WWords == SeqsUpTo(WAlphabet, MaxLen - 1)
WQueries == SeqsUpTo(WWords, MaxQueries)

NextWrite ==
  \/ \E w \in WWords, ord \in PermsOf(WAlphabet) : InsertTrie(w, ord)
  \/ \E ws \in WQueries : WriteCorrectWords(ws)
  \/ Return

SpecWrite == Init /\ [][NextWrite]_vars

\* repeated queries, the caller keeping an earlier result
RWords == SeqsUpTo(Alphabet, MaxLen - 1)

NextRepeat ==
  \/ \E w \in RWords, ord \in Orders : InsertTrie(w, ord)
  \/ \E w \in RWords : CheckSpelling(w)
  \/ Return
  \/ Remember

SpecRepeat == Init /\ [][NextRepeat]_vars

\* check_spelling, one invocation of search_with_k_edit at a time
CheckSpellingStart(w) ==
  /\ call = NoCall
  /\ call' = [NoCall EXCEPT !.op = "searching", !.word = w]
  /\ run' = [NoRun EXCEPT !.stack = <<Frame(<<>>, w, 0)>>, !.status = "running"]
  /\ UNCHANGED <<trie, corpus, out, seen>>

\* the invocation just entered runs: the search stands at the next one, or
\* at the last return
Advance(t, r) ==
  CHOOSE v \in {IF c.status # "overflow" /\ c.stack = <<>>
                THEN [c EXCEPT !.status = "done"]
                ELSE c : c \in {RunToCall(t, n) : n \in {Step(t, r)}}} : TRUE

\* one invocation of search_with_k_edit; after the last, check_spelling
\* returns check.word
SearchStep ==
  /\ call.op = "searching"
  /\ run.status = "running"
  /\ \E c \in {Advance(trie, run)} :
       /\ run' = c
       /\ call' = IF c.status = "done"
                  THEN [call EXCEPT !.op = "check", !.check = c.check]
                  ELSE call
  /\ UNCHANGED <<trie, corpus, out, seen>>

SWords == SeqsUpTo(Alphabet, MaxLen - 1)

NextSearch ==
  \/ \E w \in SWords, ord \in Orders : InsertTrie(w, ord)
  \/ \E w \in Words : CheckSpellingStart(w)
  \/ SearchStep

SpecSearch == Init /\ [][NextSearch]_vars /\ WF_vars(SearchStep)

\* ------------------------------------------------------- edit distance
\* The four operations the module documentation counts as one edit each.
Deletions(s) == {SubSeq(s, 1, i - 1) \o SubSeq(s, i + 1, Len(s)) : i \in 1..Len(s)}

Replacements(s) == {[s EXCEPT ![i] = c] : i \in 1..Len(s), c \in Alphabet}

Insertions(s) ==
  {SubSeq(s, 1, i) \o <<c>> \o SubSeq(s, i + 1, Len(s)) : i \in 0..Len(s), c \in Alphabet}

Transpositions(s) ==
  {[s EXCEPT ![i] = s[i + 1], ![i + 1] = s[i]] : i \in 1..(Len(s) - 1)}

Edit1(s) == Deletions(s) \cup Replacements(s) \cup Insertions(s) \cup Transpositions(s)

\* the least number of edits that turn q into w; MAX_EDIT + 1 stands for
\* every distance beyond the budget
EditsBetween(q, w) ==
  IF q = w THEN 0
  ELSE IF w \in Edit1(q) THEN 1
  ELSE IF \E m \in Edit1(q) : w \in Edit1(m) THEN 2
  ELSE MAX_EDIT + 1

EditDistance == [q \in Words |-> [w \in Words |-> EditsBetween(q, w)]]

CorpusWords == BagToSet(corpus)
Freq(w) == IF BagIn(w, corpus) THEN CopiesIn(w, corpus) ELSE 0

\* the count stored at the node the path w reaches, 0 when there is no such node
RECURSIVE CountAt(_, _)
CountAt(t, w) ==
  IF w = <<>> THEN t.count
  ELSE IF Head(w) \in DOMAIN t.children
       THEN CountAt(t.children[Head(w)], Tail(w))
       ELSE 0

IsChecked == call.op = "check"
Query == call.word
Result == call.check.word

\* ---------------------------------------------------------------- claims

\* C1: check_spelling of a word that was inserted at least once returns that
\* word, whatever else the trie holds.
C1_ExactMatchWins ==
  (IsChecked /\ BagIn(Query, corpus)) => Result = Some(Query)

\* an inserted word is checked while a more frequent word is one edit away
C1_Witness ==
  /\ IsChecked
  /\ BagIn(Query, corpus)
  /\ \E v \in CorpusWords : /\ v # Query
                             /\ Freq(v) > Freq(Query)
                             /\ EditDistance[Query][v] = 1
  /\ Result = Some(Query)

\* C2: the word returned is never more than MAX_EDIT edits from the query,
\* and the result is none when every corpus word is further away (so also
\* when the trie is empty).
C2_WithinBudget ==
  IsChecked =>
    /\ Result.some => EditDistance[Query][Result.val] <= MAX_EDIT
    /\ (\A v \in CorpusWords : EditDistance[Query][v] > MAX_EDIT) => Result = None

\* a query whose only corpus words are beyond the budget gives none
C2_Witness ==
  /\ IsChecked
  /\ CorpusWords # {}
  /\ \A v \in CorpusWords : EditDistance[Query][v] > MAX_EDIT
  /\ Result = None

\* C3: when some corpus word is within MAX_EDIT edits of the query,
\* check_spelling returns a word and not none.
C3_FindsWithinBudget ==
  (IsChecked /\ \E v \in CorpusWords : EditDistance[Query][v] <= MAX_EDIT)
    => Result.some

\* C4: no corpus word is strictly closer to the query than the word returned:
\* fewer edits come before frequency.
C4_FewestEdits ==
  (IsChecked /\ Result.some) =>
    \A v \in CorpusWords :
      EditDistance[Query][v] >= EditDistance[Query][Result.val]

\* the word returned is one edit away and a more frequent word is two away
C4_Witness ==
  /\ IsChecked
  /\ Result.some
  /\ EditDistance[Query][Result.val] = 1
  /\ \E v \in CorpusWords : /\ EditDistance[Query][v] = 2
                             /\ Freq(v) > Freq(Result.val)

\* C5: the word returned has the highest frequency among the corpus words at
\* its (minimal) edit distance from the query.
C5_MostFrequentAtDistance ==
  (IsChecked /\ Result.some) =>
    \A v \in CorpusWords :
      EditDistance[Query][v] = EditDistance[Query][Result.val]
        => Freq(v) <= Freq(Result.val)

\* C6: a query that is a corpus word v with two adjacent letters swapped is
\* answered with best edit count at most 1 (exactly 1, and v itself, when v
\* is the only corpus word and the swap changed it).
C6_TranspositionOneEdit ==
  IsChecked =>
    \A v \in CorpusWords :
      Query \in Transpositions(v) =>
        /\ Result.some
        /\ call.check.edit <= 1
        /\ CorpusWords = {v} => /\ Result = Some(v)
                                /\ Query # v => call.check.edit = 1

\* the last two letters of the only corpus word, of three letters, are swapped
C6_Witness ==
  /\ IsChecked
  /\ \E v \in CorpusWords :
       /\ CorpusWords = {v}
       /\ Len(v) = 3
       /\ Query = [v EXCEPT ![2] = v[3], ![3] = v[2]]
       /\ Query # v
       /\ Result = Some(v)
  /\ call.check.edit = 1

\* C7: the count at the node of w is the number of times w was inserted; an
\* insert adds exactly 1 to that one count and leaves every other count, and
\* no count ever goes down.
C7_CountsAccumulate ==
  [][/\ \A w \in Words : CountAt(trie', w) = Freq(w)'
     /\ \A w \in Words : CountAt(trie', w) >= CountAt(trie, w)
     /\ corpus' # corpus =>
          \E w \in Words :
            /\ CountAt(trie', w) = CountAt(trie, w) + 1
            /\ \A v \in Words \ {w} : CountAt(trie', v) = CountAt(trie, v)]_vars

\* a word was inserted twice and another once
C7_Witness ==
  \E w, v \in Words : /\ CountAt(trie, w) = 2 /\ Freq(w) = 2
                       /\ CountAt(trie, v) = 1 /\ Freq(v) = 1

\* C8: Trie::search(w) is true exactly when w itself was inserted; it is
\* false for a proper prefix of inserted words and on a missing edge, and it
\* leaves the trie as it was.
C8_SearchIffInserted ==
  [][call'.op = "search" =>
       /\ call'.found <=> BagIn(call'.word, corpus)
       /\ trie' = trie]_vars

IsProperPrefix(p, w) == Len(p) < Len(w) /\ SubSeq(w, 1, Len(p)) = p

\* a proper prefix of an inserted word is searched and not found
C8_Witness ==
  /\ call.op = "search"
  /\ ~call.found
  /\ \E v \in CorpusWords : IsProperPrefix(call.word, v)
  /\ call.word # <<>>

\* the line the claim gives the query word w with search result r
ClaimedLine(w, r) ==
  IF r = Some(w) THEN w
  ELSE IF r.some THEN w \o <<",", " ">> \o r.val
  ELSE w \o <<",", " ", "-">>

RECURSIVE ClaimedOutput(_, _)
ClaimedOutput(ws, t) ==
  IF ws = <<>> THEN <<>>
  ELSE ClaimedLine(Head(ws), check_spelling(t, Head(ws))) \o <<"\n">>
         \o ClaimedOutput(Tail(ws), t)

\* C9: write_correct_words writes one line per query word w, in order: w
\* when the result is w, "w, r" when the result r differs from w, and
\* "w, -" when there is no result.
C9_OneLinePerWord ==
  call.op = "write" => out = ClaimedOutput(call.words, trie)

IsSearching == run.status = "running"
IsDone == run.status = "done"
Entered == Top(run)

\* the machine and the recursive operator compute the same CheckResult
StepsAgreeWithSearched ==
  IsDone => run.check = Searched(trie, call.word)

\* C11: for every finite trie and every finite query the recursion of
\* search_with_k_edit terminates: the call stack never overflows and a
\* search that runs comes to its last return, where check_spelling hands
\* back a word or none.
C11_Terminates ==
  /\ [](run.status # "overflow")
  /\ [](IsDone => IsChecked /\ Result \in {None} \cup {Some(w) : w \in SWords})
  /\ (IsSearching ~> IsDone)

C11_Witness ==
  /\ IsDone
  /\ Query # <<>>
  /\ CorpusWords # {}
  /\ Result = None

\* C12: during any search, search_with_k_edit is never entered with k
\* greater than the budget of 2 edits, the recursion that inserts letters
\* at the end of an exhausted query included.
C12_EnteredWithinBudget ==
  IsSearching => Entered.k <= MAX_EDIT

\* C13: at every invocation of search_with_k_edit the path buffer holds the
\* edge characters from the root to the current node, and every push has
\* been undone when the search returns; hence the recorded best word is a
\* corpus word: Trie::search finds it and its node's count is the recorded
\* frequency.
C13_PathIsRootToNode ==
  /\ IsSearching => run.path = Entered.at
  /\ IsDone => run.path = <<>>
  /\ run.check.word.some =>
       /\ search(trie, run.check.word.val)
       /\ CountAt(trie, run.check.word.val) = run.check.count
  /\ IsDone => Result = run.check.word

C13_Witness ==
  /\ IsDone
  /\ Result.some
  /\ Len(Result.val) = 2
  /\ Result.val # Query
  /\ Cardinality(CorpusWords) = 2

\* the candidates of the search so far that are within the budget, and
\* those of them no other beats on edits, then on frequency
Candidates == {i \in DOMAIN run.visits : run.visits[i].k <= MAX_EDIT}
Beats(v, w) == v.k < w.k \/ (v.k = w.k /\ v.count > w.count)
Best ==
  {i \in Candidates : \A j \in Candidates : ~Beats(run.visits[j], run.visits[i])}
FirstBest == CHOOSE i \in Best : \A j \in Best : i <= j

\* the step records a new best: the node entered ends a corpus word, the
\* suffix is exhausted, and the candidate has fewer edits than the best, or
\* as many and a higher frequency
ReplacesBest ==
  LET f    == Entered
      node == NodeAt(trie, f.at)
  IN /\ f.to_go = <<>>
     /\ node.count > 0
     /\ run'.check = [word |-> Some(f.at), count |-> node.count, edit |-> f.k]
     /\ \/ f.k < run.check.edit
        \/ (f.k = run.check.edit /\ node.count > run.check.count)

ApleReturnsApe ==
  \A ord \in FruitOrders :
     check_spelling(InsertAll(TrieNew, FruitCorpus, ord), Aple) = Some(Ape)

\* C14: within one search the recorded best is replaced only by a candidate
\* at a terminal node with strictly fewer edits, or with the same edit count
\* and a strictly higher frequency; best_edits never increases and a
\* candidate that ties the best on both never replaces it, so the word
\* returned is the first candidate in exploration order among those that are
\* best on edits and then on frequency; corpus {an, apple, ape, banana,
\* banny} and query aple return ape for every child iteration order.
C14_BestReplacedOnlyByBetter ==
  /\ [][IsSearching =>
          /\ run'.check # run.check => ReplacesBest
          /\ run'.check.edit <= run.check.edit]_vars
  /\ [](IsDone =>
          /\ Result = IF Best = {} THEN None ELSE Some(run.visits[FirstBest].word)
          /\ ApleReturnsApe)

\* two candidates tie on edits and frequency and the first one is returned
C14_Witness ==
  /\ IsDone
  /\ Cardinality(Best) > 1
  /\ FirstBest = 1
  /\ Result = Some(run.visits[1].word)
  /\ \E j \in Best : run.visits[j].word # run.visits[1].word

====
